---- MODULE Spec2Model ----
(***************************************************************************)
(* ChatNexus (src/python.py): a Streamlit page that extracts the text of a *)
(* web article and answers questions about it with a hosted model.         *)
(*                                                                         *)
(* The script is re-run from top to bottom on every UI event.  The state   *)
(* that survives between runs is st.session_state (website_content,        *)
(* messages, analytics) and the value of the URL text input.  A button's   *)
(* on_click callback runs before the re-run it triggers.                   *)
(*                                                                         *)
(* Characters of a page text are modelled as small naturals; a text is a   *)
(* sequence of them.  Timestamps are abstracted to the single value Now.   *)
(***************************************************************************)
EXTENDS Integers, Sequences, FiniteSets, TLC

\* ------------------------------------------------------------ bounds
\* Questions that can be asked before a clear/reset (caps total_questions).
MaxQuestions == 2
\* How far beyond max_context_length the longest fetched text reaches.
MaxExtra == 2

\* ------------------------------------------------------------ constants
\* generate_response: max_context_length = 5000
max_context_length == 5000

\* Python's None.
None == [tag |-> "None"]
\* datetime.now().strftime(...), abstracted.
Now == [tag |-> "now"]

\* The fixed reply of generate_response's except branch.
Fallback == "I apologize, but I encountered an error while processing your request. Please try again."

\* Inputs.
URLs == {"u1", "u2"}
Questions == {"q1", "q2"}
\* Texts the hosted model may return (response.text).
Answers == {"a1"}

\* A page text of n characters; the character at position i is i % 7, so
\* that a prefix, a suffix and a shifted window of it all differ.
Text(n) == [i \in 1..n |-> i % 7]

TextLens == {0, 1, max_context_length} \cup
            { max_context_length + k : k \in 1..MaxExtra }

\* What Article(url).download()/parse() can do: raise in download, raise in
\* parse, or deliver an article whose text may be empty.
FetchResults ==
    {[status |-> "download_error"], [status |-> "parse_error"]} \cup
    { [status |-> "ok", text |-> Text(n), title |-> "T",
       publish_date |-> None, top_image |-> ""] : n \in TextLens }

\* What model.generate_content(prompt) / response.text can do.
GenResults ==
    {[status |-> "error"]} \cup { [status |-> "ok", text |-> a] : a \in Answers }

VARIABLES
    website_content,   \* st.session_state.website_content
    messages,          \* st.session_state.messages
    analytics,         \* st.session_state.analytics
    url,               \* value of the URL text input
    pc,                \* "idle" (script run finished) or "generating"
    user_input,        \* local of the ask handler while it runs
    prompt,            \* the prompt handed to the model while it runs
    widgets,           \* which controls the latest script run rendered
    last_event,        \* history: the handler that acted last
    last_fetch,        \* history: outcome of the latest fetch
    analysed,          \* history: a successful analysis since the last reset
    asked,             \* history: questions asked since the last clear/reset
    pre                \* history: counters when the latest handler started

vars == <<website_content, messages, analytics, url, pc, user_input, prompt,
          widgets, last_event, last_fetch, analysed, asked, pre>>

session == <<website_content, messages, analytics>>

\* ------------------------------------------------------------ helpers
\* Python truthiness of session_state.website_content: None or a 6-key dict.
HasContent(c) == c # None

\* The controls a script run renders, given the state it ends in.
Render(u, content, msgs) ==
    [ start_analysis |-> u # "",
      chat_input     |-> HasContent(content),
      clear_chat     |-> Len(msgs) > 0,
      reset_analysis |-> HasContent(content) ]

Counters == [ total_questions |-> analytics.total_questions,
              nmessages       |-> Len(messages),
              websites        |-> analytics.websites_analyzed ]

\* Variant: the emptiness test on the extracted text is missing.
extract_website_content_unchecked(u, fetched) ==
    IF fetched.status # "ok" THEN None
    ELSE [ text         |-> fetched.text,
           title        |-> fetched.title,
           publish_date |-> fetched.publish_date,
           top_image    |-> fetched.top_image,
           length       |-> Len(fetched.text),
           timestamp    |-> Now ]

\* extract_website_content(url): the content dict, or None on any failure.
extract_website_content(u, fetched) ==
    IF fetched.status # "ok" THEN None
    ELSE LET content == [ text         |-> fetched.text,
                          title        |-> fetched.title,
                          publish_date |-> fetched.publish_date,
                          top_image    |-> fetched.top_image,
                          length       |-> Len(fetched.text),
                          timestamp    |-> Now ]
         IN IF Len(content.text) = 0 THEN None ELSE content

\* Variant: the slice keeps the last max_context_length characters.
truncated_text_tail(website_text) ==
    IF Len(website_text) > max_context_length
    THEN SubSeq(website_text, Len(website_text) - max_context_length + 1,
                Len(website_text))
    ELSE website_text

\* generate_response: the context placed in the prompt.
truncated_text(website_text) ==
    IF Len(website_text) > max_context_length
    THEN SubSeq(website_text, 1, max_context_length)
    ELSE website_text

\* generate_response: the prompt (fixed template around context and query).
BuildPrompt(query, website_text) ==
    [ context |-> truncated_text(website_text), question |-> query ]

\* Variant: the except branch returns an empty reply.
generate_response_silent(result) ==
    IF result.status = "ok" THEN result.text ELSE ""

\* generate_response: the returned string, given what the service did.
generate_response(result) ==
    IF result.status = "ok" THEN result.text ELSE Fallback

\* Variant: a failed extraction overwrites the stored content.
StoreContent_always(old, content) == content

\* Analyze handler: `if content: session_state.website_content = content`.
StoreContent(old, content) == IF HasContent(content) THEN content ELSE old

\* Variant: the set of analysed sites is replaced instead of extended.
AddWebsite_replace(websites, u) == {u}

\* Analyze handler: analytics['websites_analyzed'].add(url).
AddWebsite(websites, u) == websites \cup {u}

\* Variant: the question is inserted at the head of the log.
AppendUser_front(msgs, q) == <<[role |-> "user", content |-> q]>> \o msgs

\* Ask handler: messages.append({"role": "user", "content": user_input}).
AppendUser(msgs, q) == Append(msgs, [role |-> "user", content |-> q])

\* Variant: the fallback reply is not recorded.
AppendAssistant_skip_error(msgs, response) ==
    IF response = Fallback THEN msgs
    ELSE Append(msgs, [role |-> "assistant", content |-> response])

\* Ask handler: messages.append({"role": "assistant", "content": response}).
AppendAssistant(msgs, response) ==
    Append(msgs, [role |-> "assistant", content |-> response])

\* Variant: the question counter survives clear_chat.
ClearChatAnalytics_keep_count(a) == a

\* clear_chat: analytics['total_questions'] = 0.
ClearChatAnalytics(a) == [a EXCEPT !.total_questions = 0]

\* Variant: the set of analysed sites survives reset_analysis.
ResetAnalytics_keep_sites(a) == [a EXCEPT !.total_questions = 0]

\* reset_analysis: total_questions = 0, websites_analyzed = set().
ResetAnalytics(a) == [a EXCEPT !.total_questions = 0, !.websites_analyzed = {}]

\* Variant: the message log survives reset_analysis.
ResetMessages_keep(msgs) == msgs

\* reset_analysis: messages = [].
ResetMessages(msgs) == <<>>

\* ------------------------------------------------------------ initial state
Init ==
    /\ website_content = None
    /\ messages = <<>>
    /\ analytics = [ total_questions |-> 0, websites_analyzed |-> {},
                     last_activity |-> None ]
    /\ url = ""
    /\ pc = "idle"
    /\ user_input = None
    /\ prompt = None
    /\ widgets = Render("", None, <<>>)
    /\ last_event = "start"
    /\ last_fetch = None
    /\ analysed = FALSE
    /\ asked = <<>>
    /\ pre = [ total_questions |-> 0, nmessages |-> 0, websites |-> {} ]

\* ------------------------------------------------------------ actions
\* The user types a URL (or clears the field); the script re-runs.
EnterUrl ==
    /\ pc = "idle"
    /\ \E u \in URLs \cup {""} :
         /\ u # url
         /\ url' = u
         /\ widgets' = Render(u, website_content, messages)
    /\ last_event' = "url"
    /\ pre' = Counters
    /\ UNCHANGED <<session, pc, user_input, prompt, last_fetch, analysed, asked>>

\* "Start Analysis" button.
StartAnalysis ==
    /\ pc = "idle"
    /\ widgets.start_analysis
    /\ \E fetched \in FetchResults :
         LET content == extract_website_content(url, fetched) IN
         /\ last_fetch' = [ status |-> fetched.status,
                            length |-> IF fetched.status = "ok"
                                       THEN Len(fetched.text) ELSE 0 ]
         /\ website_content' = StoreContent(website_content, content)
         /\ IF HasContent(content)
            THEN /\ analytics' =
                      [analytics EXCEPT
                         !.websites_analyzed = AddWebsite(@, url),
                         !.last_activity = Now]
                 /\ analysed' = TRUE
                 /\ last_event' = "analysis_ok"
            ELSE /\ UNCHANGED <<analytics, analysed>>
                 /\ last_event' = "analysis_failed"
    /\ widgets' = Render(url, website_content', messages)
    /\ pre' = Counters
    /\ UNCHANGED <<messages, url, pc, user_input, prompt, asked>>

\* Chat input submitted: counters, user message, prompt built, call issued.
AskQuestion ==
    /\ pc = "idle"
    /\ widgets.chat_input
    /\ HasContent(website_content)
    /\ analytics.total_questions < MaxQuestions
    /\ \E q \in Questions :
         /\ user_input' = q
         /\ messages' = AppendUser(messages, q)
         /\ prompt' = BuildPrompt(q, website_content.text)
         /\ asked' = Append(asked, q)
    /\ analytics' = [analytics EXCEPT !.total_questions = @ + 1,
                                      !.last_activity = Now]
    /\ pc' = "generating"
    /\ last_event' = "question"
    /\ pre' = Counters
    /\ UNCHANGED <<website_content, url, widgets, last_fetch, analysed>>

\* The model call returns or raises; the reply is appended; the run ends.
Respond ==
    /\ pc = "generating"
    /\ \E result \in GenResults :
         /\ messages' = AppendAssistant(messages, generate_response(result))
         /\ last_event' = IF result.status = "ok" THEN "answer_ok"
                                                  ELSE "answer_failed"
    /\ pc' = "idle"
    /\ user_input' = None
    /\ prompt' = None
    /\ widgets' = Render(url, website_content, messages')
    /\ UNCHANGED <<website_content, analytics, url, last_fetch, analysed,
                   asked, pre>>

\* "Clear Chat History" button (on_click callback, then re-run).
clear_chat ==
    /\ pc = "idle"
    /\ widgets.clear_chat
    /\ messages' = <<>>
    /\ analytics' = ClearChatAnalytics(analytics)
    /\ widgets' = Render(url, website_content, messages')
    /\ last_event' = "clear_chat"
    /\ asked' = <<>>
    /\ pre' = Counters
    /\ UNCHANGED <<website_content, url, pc, user_input, prompt, last_fetch,
                   analysed>>

\* "Reset Analysis" button (on_click callback, then re-run).
reset_analysis ==
    /\ pc = "idle"
    /\ widgets.reset_analysis
    /\ website_content' = None
    /\ messages' = ResetMessages(messages)
    /\ analytics' = ResetAnalytics(analytics)
    /\ widgets' = Render(url, website_content', messages')
    /\ last_event' = "reset_analysis"
    /\ analysed' = FALSE
    /\ asked' = <<>>
    /\ pre' = Counters
    /\ UNCHANGED <<url, pc, user_input, prompt, last_fetch>>

Next ==
    \/ EnterUrl
    \/ StartAnalysis
    \/ AskQuestion
    \/ Respond
    \/ clear_chat
    \/ reset_analysis

Spec == Init /\ [][Next]_vars

\* ------------------------------------------------------------ properties
Min(a, b) == IF a < b THEN a ELSE b

FetchFailed(f) == f.status # "ok" \/ f.length = 0

\* C1: after N questions asked with no clear chat and no reset analysis in
\* between (analyses may be interleaved), total_questions = N and the log
\* has exactly 2N entries, user then assistant, the i-th user entry carrying
\* the i-th question verbatim.
C1_QuestionLog ==
    pc = "idle" =>
        /\ analytics.total_questions = Len(asked)
        /\ Len(messages) = 2 * Len(asked)
        /\ \A i \in 1..Len(asked) :
             /\ messages[2 * i - 1] = [role |-> "user", content |-> asked[i]]
             /\ messages[2 * i].role = "assistant"

C1_Witness ==
    /\ pc = "idle"
    /\ Len(asked) >= 2
    /\ asked[1] # asked[2]
    /\ last_event = "analysis_failed"

\* C2: website_content is None exactly when no successful analysis has
\* happened since the last reset (session start or reset analysis), and the
\* question input is offered exactly when website_content is not None.
C2_ContentIffAnalysed ==
    /\ (website_content = None) <=> ~analysed
    /\ widgets.chat_input <=> (website_content # None)

C2_Witness ==
    /\ website_content # None
    /\ analysed
    /\ widgets.chat_input
    /\ last_event = "analysis_failed"

\* C3: reset analysis always leaves website_content = None, an empty log,
\* total_questions = 0 and an empty websites_analyzed.
C3_ResetAnalysis ==
    last_event = "reset_analysis" =>
        /\ website_content = None
        /\ messages = <<>>
        /\ analytics.total_questions = 0
        /\ analytics.websites_analyzed = {}

C3_Witness ==
    /\ last_event = "reset_analysis"
    /\ pre.nmessages >= 2
    /\ pre.total_questions >= 1
    /\ Cardinality(pre.websites) >= 2

\* C4: clear chat on a session with a non-empty log leaves total_questions = 0
\* and an empty log, and changes neither websites_analyzed nor
\* website_content.
C4_ClearChat ==
    [][ (last_event' = "clear_chat" /\ Len(messages) > 0) =>
          /\ messages' = <<>>
          /\ analytics'.total_questions = 0
          /\ analytics'.websites_analyzed = analytics.websites_analyzed
          /\ website_content' = website_content ]_vars

C4_Witness ==
    /\ last_event = "clear_chat"
    /\ pre.total_questions >= 2
    /\ pre.nmessages >= 4
    /\ website_content # None
    /\ Cardinality(analytics.websites_analyzed) >= 2

\* C5: when the fetch fails (download or parse error) or yields an empty
\* text, the analysis is a failure and the stored website_content is left as
\* it was.
C5_FailedFetch ==
    [][ (last_event' \in {"analysis_ok", "analysis_failed"}
           /\ FetchFailed(last_fetch')) =>
          /\ last_event' = "analysis_failed"
          /\ website_content' = website_content ]_vars

C5_Witness ==
    /\ last_event = "analysis_failed"
    /\ last_fetch.status = "ok"
    /\ last_fetch.length = 0
    /\ website_content # None

\* C6: when the model call fails, the fixed fallback string is the assistant
\* reply to that question, and the question still counts: total_questions is
\* one higher and the question is the user entry before the reply.
C6_GenerationFailure ==
    last_event = "answer_failed" =>
        /\ Len(messages) = pre.nmessages + 2
        /\ messages[Len(messages)] = [role |-> "assistant", content |-> Fallback]
        /\ messages[Len(messages) - 1] =
               [role |-> "user", content |-> asked[Len(asked)]]
        /\ analytics.total_questions = pre.total_questions + 1

C6_Witness ==
    /\ last_event = "answer_failed"
    /\ pre.total_questions >= 1
    /\ messages[2].content # Fallback

\* C7: the context in the prompt is the first max_context_length characters
\* of the page text when the text is longer, and the whole text otherwise.
C7_Truncation ==
    pc = "generating" =>
        LET text == website_content.text
            context == prompt.context
        IN /\ Len(context) = Min(Len(text), max_context_length)
           /\ \A i \in 1..Len(context) : context[i] = text[i]

C7_Witness ==
    /\ pc = "generating"
    /\ Len(website_content.text) > max_context_length
    /\ Len(prompt.context) = max_context_length

\* C8: in every step that is not clear chat or reset analysis,
\* total_questions does not decrease and websites_analyzed loses no element.
C8_Monotonic ==
    [][ \/ last_event' \in {"clear_chat", "reset_analysis"}
        \/ /\ analytics'.total_questions >= analytics.total_questions
           /\ analytics.websites_analyzed \subseteq analytics'.websites_analyzed
      ]_vars

C8_Witness ==
    /\ last_event = "analysis_ok"
    /\ Cardinality(pre.websites) = 1
    /\ Cardinality(analytics.websites_analyzed) = 2
    /\ analytics.total_questions >= 2

\* C9: when no handler is running, the log has exactly 2 * total_questions
\* entries and does not end with a user entry; a log ending with a user
\* entry exists only while the ask handler waits for the reply.
C9_PairedLog ==
    /\ pc = "idle" =>
         /\ Len(messages) = 2 * analytics.total_questions
         /\ Len(messages) > 0 => messages[Len(messages)].role # "user"
    /\ (Len(messages) > 0 /\ messages[Len(messages)].role = "user") =>
         pc = "generating"

C9_Witness ==
    /\ pc = "idle"
    /\ last_event = "answer_failed"
    /\ analytics.total_questions >= 2
    /\ Len(messages) >= 4

\* C10: a non-empty log (equivalently total_questions > 0) implies
\* website_content is not None, so clear chat is only offered while an
\* analysis is present.
C10_ChatNeedsContent ==
    /\ (Len(messages) > 0) <=> (analytics.total_questions > 0)
    /\ Len(messages) > 0 => website_content # None
    /\ widgets.clear_chat => website_content # None

C10_Witness ==
    /\ Len(messages) >= 2
    /\ widgets.clear_chat
    /\ website_content # None
    /\ last_event = "analysis_failed"

====
